---- MODULE Spec2Model ----
(***************************************************************************)
(* Session lifecycle of EufyCameraStreamingDelegate (src/src/platform.ts): *)
(* prepareStream and its response, handleStreamRequest (START / STOP /     *)
(* RECONFIGURE), the promise continuations of startStream and stopStream,  *)
(* the watchdog socket and its inactivity timer under a clock of 1000 ms   *)
(* ticks, and the supervised ffmpeg subprocess.                            *)
(*                                                                         *)
(* Node's event loop runs one callback at a time, so every handler and     *)
(* every promise continuation is one atomic action; the order of the       *)
(* continuations is left to the scheduler.                                 *)
(***************************************************************************)
EXTENDS Integers, Sequences, FiniteSets, TLC

\* Bound of the model: how many START, STOP and RECONFIGURE requests a run
\* may hold.
MaxRequests == 3

\* Bound of the model: how many of them may be STARTs, in the specifications
\* that say so.
MaxStarts == 1

\* Session identifiers the controller may send (request.sessionID).
Ids == {"A", "B"}

\* The absent entry of a Record<string, ...> (undefined).
NoSession == [none |-> TRUE]

\* PrepareStreamRequest values the controller may send.
PrepareRequests ==
  { [targetAddress |-> "10.0.0.5", port |-> 52000, srtpCryptoSuite |-> "AES_CM_128_HMAC_SHA1_80",
     srtp_key |-> <<250, 7>>, srtp_salt |-> <<255>>],
    [targetAddress |-> "10.0.0.6", port |-> 52002, srtpCryptoSuite |-> "AES_CM_128_HMAC_SHA1_80",
     srtp_key |-> <<0, 129>>, srtp_salt |-> <<64, 3>>] }

\* Values hap.CameraController.generateSynchronisationSource() may return.
SSRCs == {11, 12}

\* Values ip.address('public', request.addressVersion) may return.
LocalAddresses == {"192.168.1.20"}

\* Values of request.video.rtcp_interval (seconds) a START may carry.
RtcpIntervals == {0, 1}

\* No prepareStream call has been made yet.
NoCall == [none |-> TRUE]

VARIABLES
  pendingSessions,   \* [Ids -> SessionInfo or NoSession]
  ongoingSessions,   \* [Ids -> 0 (absent) or the index of the START whose ActiveSession object is stored]
  starts,            \* one record per START request: its promise chain and the ActiveSession object it builds
  stops,             \* one record per STOP request and the position of its promise chain
  lastStoreOp,       \* [Ids -> the last handler that wrote the stores under the id]: none | prepare | launch | stop
  prepared,          \* the last prepareStream call: its request, what it replaced and the response it called back with
  reconfigures,      \* one record per RECONFIGURE request: the calls of its callback
  videoConfig,       \* the delegate's videoConfig
  snapshot,          \* the last snapshot request and the resolution computed for it
  discovery          \* the platform's device discovery: accessory cache, listings left, registrations made

vars == <<pendingSessions, ongoingSessions, starts, stops, lastStoreOp, prepared, reconfigures,
          videoConfig, snapshot, discovery>>

----------------------------------------------------------------------------
\* prepareStream: the SessionInfo stored for a request (Buffer.concat is \o).
SessionInfoOf(req, ssrc) ==
  [address |-> req.targetAddress,
   videoPort |-> req.port,
   videoCryptoSuite |-> req.srtpCryptoSuite,
   videoSRTP |-> req.srtp_key \o req.srtp_salt,
   videoSSRC |-> ssrc]

\* ResponseOf with a synchronisation source generated anew for the response.
ResponseOfOtherSsrc(req, ssrc, currentAddress) ==
  [address |-> currentAddress,
   video |-> [port |-> req.port, ssrc |-> CHOOSE x \in SSRCs : x # ssrc,
              srtp_key |-> req.srtp_key, srtp_salt |-> req.srtp_salt]]

\* prepareStream: the PrepareStreamResponse handed to the callback.
ResponseOf(req, ssrc, currentAddress) ==
  [address |-> currentAddress,
   video |-> [port |-> req.port, ssrc |-> ssrc,
              srtp_key |-> req.srtp_key, srtp_salt |-> req.srtp_salt]]

\* prepareStream keeping the SessionInfo the id already has.
prepareStreamKeepsFirst(s, req, ssrc, currentAddress) ==
  /\ pendingSessions' = [pendingSessions EXCEPT ![s] =
        IF @ = NoSession THEN SessionInfoOf(req, ssrc) ELSE @]
  /\ lastStoreOp' = [lastStoreOp EXCEPT ![s] = "prepare"]
  /\ prepared' = [sid |-> s, request |-> req, ssrc |-> ssrc,
                  replaced |-> pendingSessions[s] \notin {NoSession, SessionInfoOf(req, ssrc)},
                  error |-> "undefined",
                  response |-> ResponseOf(req, ssrc, currentAddress)]
  /\ UNCHANGED <<ongoingSessions, starts, stops, reconfigures, videoConfig, snapshot, discovery>>

\* prepareStream storing the SessionInfo under every session id.
prepareStreamEveryId(s, req, ssrc, currentAddress) ==
  /\ pendingSessions' = [x \in Ids |-> SessionInfoOf(req, ssrc)]
  /\ lastStoreOp' = [lastStoreOp EXCEPT ![s] = "prepare"]
  /\ prepared' = [sid |-> s, request |-> req, ssrc |-> ssrc,
                  replaced |-> pendingSessions[s] \notin {NoSession, SessionInfoOf(req, ssrc)},
                  error |-> "undefined",
                  response |-> ResponseOf(req, ssrc, currentAddress)]
  /\ UNCHANGED <<ongoingSessions, starts, stops, reconfigures, videoConfig, snapshot, discovery>>

\* prepareStream: stores the SessionInfo under the session id, whatever the
\* stores hold for that id, and calls back with the response. `ssrc` records
\* the synchronisation source the call generated; `replaced`, that the id had
\* a different SessionInfo before the call.
prepareStream(s, req, ssrc, currentAddress) ==
  /\ pendingSessions' = [pendingSessions EXCEPT ![s] = SessionInfoOf(req, ssrc)]
  /\ lastStoreOp' = [lastStoreOp EXCEPT ![s] = "prepare"]
  /\ prepared' = [sid |-> s, request |-> req, ssrc |-> ssrc,
                  replaced |-> pendingSessions[s] \notin {NoSession, SessionInfoOf(req, ssrc)},
                  error |-> "undefined",
                  response |-> ResponseOf(req, ssrc, currentAddress)]
  /\ UNCHANGED <<ongoingSessions, starts, stops, reconfigures, videoConfig, snapshot, discovery>>

----------------------------------------------------------------------------
\* The videoConfig of the delegate as the source sets it: forceMax undefined
\* (falsy), the maxima 1280 and 720, one configured filter, vcodec libx264.
\* A videoFilter is undefined, a string or (behind the `as any` cast) an
\* array of strings; `value` holds the string as a one-element sequence.
DefaultVideoConfig ==
  [forceMax |-> FALSE, maxWidth |-> 1280, maxHeight |-> 720,
   videoFilter |-> [kind |-> "string", value |-> <<"scale=1280:720">>],
   vcodec |-> "libx264"]

\* The configurations the resolution policy is examined under: forceMax set
\* or not, the maxima set or 0, no filter, the empty string, one filter, the
\* sentinel, lists with and without the sentinel, and the codecs (the empty
\* string stands for an unset vcodec).
VideoFilters ==
  {[kind |-> "undefined", value |-> <<>>],
   [kind |-> "string", value |-> <<"">>],
   [kind |-> "string", value |-> <<"scale=1280:720">>],
   [kind |-> "string", value |-> <<"none">>],
   [kind |-> "array", value |-> <<"hflip", "none">>],
   [kind |-> "array", value |-> <<"hflip", "vflip">>]}

VideoConfigs ==
  {[forceMax |-> f, maxWidth |-> m[1], maxHeight |-> m[2], videoFilter |-> v, vcodec |-> c] :
     f \in BOOLEAN, m \in {<<1280, 720>>, <<0, 0>>}, v \in VideoFilters,
     c \in {"libx264", "copy", ""}}

\* The (width, height, fps, max_bit_rate) requested: no dimensions, below,
\* at and above the maxima, and mixed.
Dimensions ==
  {<<0, 0, 30, 299>>, <<640, 480, 15, 132>>, <<1280, 720, 30, 299>>,
   <<1920, 1080, 30, 802>>, <<1920, 480, 15, 299>>, <<0, 480, 24, 132>>}

\* request.video of a START with the given rtcp interval, at the maxima of
\* the source's configuration.
VideoOf(rtcp_interval) ==
  [width |-> 1280, height |-> 720, fps |-> 30, max_bit_rate |-> 299,
   rtcp_interval |-> rtcp_interval]

\* request.video of the STARTs the resolution policy is examined under.
VideoRequests ==
  {[width |-> d[1], height |-> d[2], fps |-> d[3], max_bit_rate |-> d[4], rtcp_interval |-> 0] :
     d \in Dimensions}

\* The snapshot requests.
SnapshotRequests ==
  {[width |-> d[1], height |-> d[2]] : d \in {e \in Dimensions : e[1] = 0 \/ e[2] = 1080}}

\* [].concat(videoFilter || []): nothing for undefined and for the empty
\* string, the string as the only element, or the elements of the array.
FiltersOf(videoFilter) ==
  CASE videoFilter.kind = "undefined" -> <<>>
    [] videoFilter.kind = "string" -> IF videoFilter.value[1] = "" THEN <<>> ELSE videoFilter.value
    [] videoFilter.kind = "array" -> videoFilter.value

\* filters.indexOf(x), counted from 1; 0 when x is not an element.
IndexOf(filters, x) ==
  IF \E i \in 1..Len(filters) : filters[i] = x
  THEN CHOOSE i \in 1..Len(filters) :
         /\ filters[i] = x
         /\ \A j \in 1..(i - 1) : filters[j] # x
  ELSE 0

\* filters.splice(i, 1), i counted from 1.
Splice(filters, i) == SubSeq(filters, 1, i - 1) \o SubSeq(filters, i + 1, Len(filters))

\* filters.join(',').
RECURSIVE Join(_)
Join(filters) ==
  IF Len(filters) = 0 THEN ""
  ELSE IF Len(filters) = 1 THEN filters[1]
  ELSE filters[1] \o "," \o Join(Tail(filters))

\* The filter that rounds both dimensions down to even numbers.
RoundingFilter == "scale='trunc(iw/2)*2':'trunc(ih/2)*2'"

\* determineResolution that applies the maxima to snapshots as well.
determineResolutionClampsSnapshots(request, isSnapshot) ==
  LET width == IF \/ videoConfig.forceMax /\ videoConfig.maxWidth # 0
                  \/ request.width > videoConfig.maxWidth
               THEN videoConfig.maxWidth ELSE request.width
      height == IF \/ videoConfig.forceMax /\ videoConfig.maxHeight # 0
                   \/ request.height > videoConfig.maxHeight
                THEN videoConfig.maxHeight ELSE request.height
      filters == FiltersOf(videoConfig.videoFilter)
      noneFilter == IndexOf(filters, "none")
      kept == IF noneFilter > 0 THEN Splice(filters, noneFilter) ELSE filters
      all == IF noneFilter = 0 /\ (width > 0 \/ height > 0)
             THEN Append(kept, RoundingFilter) ELSE kept
  IN [width |-> width, height |-> height, videoFilter |-> Join(all)]

\* determineResolution that appends the rounding filter whatever the
\* configured filters hold.
determineResolutionAlwaysRounds(request, isSnapshot) ==
  LET width == IF /\ ~isSnapshot
                  /\ \/ videoConfig.forceMax /\ videoConfig.maxWidth # 0
                     \/ request.width > videoConfig.maxWidth
               THEN videoConfig.maxWidth ELSE request.width
      height == IF /\ ~isSnapshot
                   /\ \/ videoConfig.forceMax /\ videoConfig.maxHeight # 0
                      \/ request.height > videoConfig.maxHeight
                THEN videoConfig.maxHeight ELSE request.height
      filters == FiltersOf(videoConfig.videoFilter)
      noneFilter == IndexOf(filters, "none")
      kept == IF noneFilter > 0 THEN Splice(filters, noneFilter) ELSE filters
      all == IF width > 0 \/ height > 0 THEN Append(kept, RoundingFilter) ELSE kept
  IN [width |-> width, height |-> height, videoFilter |-> Join(all)]

\* determineResolution that puts the rounding filter first.
determineResolutionRoundsFirst(request, isSnapshot) ==
  LET width == IF /\ ~isSnapshot
                  /\ \/ videoConfig.forceMax /\ videoConfig.maxWidth # 0
                     \/ request.width > videoConfig.maxWidth
               THEN videoConfig.maxWidth ELSE request.width
      height == IF /\ ~isSnapshot
                   /\ \/ videoConfig.forceMax /\ videoConfig.maxHeight # 0
                      \/ request.height > videoConfig.maxHeight
                THEN videoConfig.maxHeight ELSE request.height
      filters == FiltersOf(videoConfig.videoFilter)
      noneFilter == IndexOf(filters, "none")
      kept == IF noneFilter > 0 THEN Splice(filters, noneFilter) ELSE filters
      all == IF noneFilter = 0 /\ (width > 0 \/ height > 0)
             THEN <<RoundingFilter>> \o kept ELSE kept
  IN [width |-> width, height |-> height, videoFilter |-> Join(all)]

\* determineResolution: the requested dimensions, each replaced by the
\* configured maximum for a request that is no snapshot when forceMax and
\* the maximum are set or the dimension is above the maximum; the configured
\* filters without the first "none", followed by the rounding filter when no
\* "none" was configured and a resulting dimension is positive, joined by
\* commas.
determineResolution(request, isSnapshot) ==
  LET width == IF /\ ~isSnapshot
                  /\ \/ videoConfig.forceMax /\ videoConfig.maxWidth # 0
                     \/ request.width > videoConfig.maxWidth
               THEN videoConfig.maxWidth ELSE request.width
      height == IF /\ ~isSnapshot
                   /\ \/ videoConfig.forceMax /\ videoConfig.maxHeight # 0
                      \/ request.height > videoConfig.maxHeight
                THEN videoConfig.maxHeight ELSE request.height
      filters == FiltersOf(videoConfig.videoFilter)
      noneFilter == IndexOf(filters, "none")
      kept == IF noneFilter > 0 THEN Splice(filters, noneFilter) ELSE filters
      all == IF noneFilter = 0 /\ (width > 0 \/ height > 0)
             THEN Append(kept, RoundingFilter) ELSE kept
  IN [width |-> width, height |-> height, videoFilter |-> Join(all)]

\* handleSnapshotRequest: computes the resolution of the snapshot; the
\* frame is then grabbed by a subprocess of its own, which keeps nothing in
\* the delegate. `filtered` records that a -filter:v argument was passed.
handleSnapshotRequest(request) ==
  LET resolution == determineResolution(request, TRUE)
  IN
  /\ snapshot' = [request |-> request, resolution |-> resolution,
                  filtered |-> resolution.videoFilter # ""]
  /\ UNCHANGED <<pendingSessions, ongoingSessions, starts, stops, lastStoreOp, prepared,
                 reconfigures, videoConfig, discovery>>

----------------------------------------------------------------------------
\* Buffer.toString('base64'): the digits of the encoding as indices into
\* the base64 alphabet, Pad for '='.
Pad == 64

\* The encoding that leaves out the bytes after the last full group of three.
RECURSIVE Base64EncodeFullGroups(_)
Base64EncodeFullGroups(bytes) ==
  IF Len(bytes) < 3 THEN <<>>
  ELSE LET b == bytes[1] * 65536 + bytes[2] * 256 + bytes[3]
       IN <<b \div 262144, (b \div 4096) % 64, (b \div 64) % 64, b % 64>>
            \o Base64EncodeFullGroups(SubSeq(bytes, 4, Len(bytes)))

RECURSIVE Base64Encode(_)
Base64Encode(bytes) ==
  IF Len(bytes) = 0 THEN <<>>
  ELSE IF Len(bytes) = 1
    THEN LET b == bytes[1] * 16
         IN <<b \div 64, b % 64, Pad, Pad>>
  ELSE IF Len(bytes) = 2
    THEN LET b == (bytes[1] * 256 + bytes[2]) * 4
         IN <<b \div 4096, (b \div 64) % 64, b % 64, Pad>>
  ELSE LET b == bytes[1] * 65536 + bytes[2] * 256 + bytes[3]
       IN <<b \div 262144, (b \div 4096) % 64, (b \div 64) % 64, b % 64>>
            \o Base64Encode(SubSeq(bytes, 4, Len(bytes)))

\* The bytes a base64 text stands for, as the subprocess decodes its
\* -srtp_out_params argument.
RECURSIVE Base64Decode(_)
Base64Decode(digits) ==
  IF Len(digits) < 4 THEN <<>>
  ELSE LET d == digits
           group ==
             IF d[3] = Pad THEN <<(d[1] * 64 + d[2]) \div 16>>
             ELSE IF d[4] = Pad
               THEN LET b == (d[1] * 4096 + d[2] * 64 + d[3]) \div 4
                    IN <<b \div 256, b % 256>>
             ELSE LET b == d[1] * 262144 + d[2] * 4096 + d[3] * 64 + d[4]
                  IN <<b \div 65536, (b \div 256) % 256, b % 256>>
       IN group \o Base64Decode(SubSeq(digits, 5, Len(digits)))

\* No subprocess has been launched for the START.
NoArgs == [none |-> TRUE]

\* The launch that applies the pass-through override to the resolution only.
LaunchArgsKeepsRate(sessionInfo, video) ==
  LET vcodec == IF videoConfig.vcodec = "" THEN "libx264" ELSE videoConfig.vcodec
      resolution == determineResolution(video, FALSE)
      copy == vcodec = "copy"
  IN [vcodec |-> vcodec,
      policy |-> resolution,
      width |-> IF copy THEN 0 ELSE resolution.width,
      height |-> IF copy THEN 0 ELSE resolution.height,
      videoFilter |-> IF copy THEN "" ELSE resolution.videoFilter,
      fps |-> video.fps,
      videoBitrate |-> video.max_bit_rate,
      ssrc |-> sessionInfo.videoSSRC,
      srtp_out_params |-> Base64Encode(sessionInfo.videoSRTP),
      address |-> sessionInfo.address,
      port |-> sessionInfo.videoPort,
      rtcpport |-> sessionInfo.videoPort]

\* startStream: what the continuation computes for the subprocess from the
\* SessionInfo, request.video and the videoConfig. `policy` is what
\* determineResolution returned; with vcodec copy the resolution, the filter,
\* the frame rate and the bitrate are then reset.
LaunchArgs(sessionInfo, video) ==
  LET vcodec == IF videoConfig.vcodec = "" THEN "libx264" ELSE videoConfig.vcodec
      resolution == determineResolution(video, FALSE)
      copy == vcodec = "copy"
  IN [vcodec |-> vcodec,
      policy |-> resolution,
      width |-> IF copy THEN 0 ELSE resolution.width,
      height |-> IF copy THEN 0 ELSE resolution.height,
      videoFilter |-> IF copy THEN "" ELSE resolution.videoFilter,
      fps |-> IF copy THEN 0 ELSE video.fps,
      videoBitrate |-> IF copy THEN 0 ELSE video.max_bit_rate,
      ssrc |-> sessionInfo.videoSSRC,
      srtp_out_params |-> Base64Encode(sessionInfo.videoSRTP),
      address |-> sessionInfo.address,
      port |-> sessionInfo.videoPort,
      rtcpport |-> sessionInfo.videoPort]

----------------------------------------------------------------------------
\* A START request that has not launched anything (yet). Once launched, the
\* record is also the ActiveSession object the continuation builds:
\*   socket       none | bound | errored (bound, has emitted 'error') |
\*                closed | stuck (close() threw, still bound)
\*   timeout      none (never armed, or cleared) | armed | fired
\*   rtcp_interval  request.video.rtcp_interval of the START
\*   video        request.video of the START
\*   args         what the launch computed for the subprocess
\*   left         ticks (of 1000 ms) the armed timer still has to run
\*   quiet        ticks since the socket was bound or received its last
\*                datagram, counted while it is open and up to the delay of
\*                the timer
\*   renewed      a datagram has arrived while the pending timer still had
\*                time to run
\*   mainProcess  none | Starting | Running | Exited
\*   kill         none | sent (stop() signalled the subprocess) | threw
\*   ready        the calls of the START callback, in order ("ok" / "err")
\*   stopped      a STOP continuation of the session has run to its end
\*                since this START launched
\*   stopSeen     a STOP continuation of the session ran while this START
\*                was waiting on the upstream call or the settle delay
NewStart(s, video) ==
  [sid |-> s, pc |-> "http", rtcp_interval |-> video.rtcp_interval, video |-> video,
   args |-> NoArgs, ready |-> <<>>,
   socket |-> "none", timeout |-> "none", left |-> 0, quiet |-> 0, renewed |-> FALSE,
   mainProcess |-> "none", kill |-> "none", stopSeen |-> FALSE, stopped |-> FALSE]

\* An ActiveSession object holds something not yet released.
Unreleased(a) ==
  \/ a.socket \in {"bound", "errored", "stuck"}
  \/ a.timeout = "armed"
  \/ a.mainProcess \in {"Starting", "Running"}

\* handleStreamRequest, case START: startStream issues the upstream
\* start-feed call and returns; the rest runs in promise continuations.
startStream(s, video) ==
  /\ Len(starts) + Len(stops) + Len(reconfigures) < MaxRequests
  /\ starts' = Append(starts, NewStart(s, video))
  /\ UNCHANGED <<pendingSessions, ongoingSessions, stops, lastStoreOp, prepared, reconfigures, videoConfig, snapshot, discovery>>

\* The continuation of the upstream call that binds the socket and spawns
\* the subprocess as soon as the URL is there.
startFeedResolvedSpawns(t) ==
  /\ starts[t].pc = "http"
  /\ starts' = [starts EXCEPT ![t] =
        [@ EXCEPT !.pc = "settle", !.socket = "bound", !.mainProcess = "Starting"]]
  /\ UNCHANGED <<pendingSessions, ongoingSessions, stops, lastStoreOp, prepared, reconfigures, videoConfig, snapshot, discovery>>

\* httpService.startStream resolves with a URL: the settle delay starts.
startFeedResolved(t) ==
  /\ starts[t].pc = "http"
  /\ starts' = [starts EXCEPT ![t].pc = "settle"]
  /\ UNCHANGED <<pendingSessions, ongoingSessions, stops, lastStoreOp, prepared, reconfigures, videoConfig, snapshot, discovery>>

\* httpService.startStream rejects: the chain has no catch, so no
\* continuation runs and the callback is never called.
startFeedRejected(t) ==
  /\ starts[t].pc = "http"
  /\ starts' = [starts EXCEPT ![t].pc = "rejected"]
  /\ UNCHANGED <<pendingSessions, ongoingSessions, stops, lastStoreOp, prepared, reconfigures, videoConfig, snapshot, discovery>>

\* The continuation after the settle delay: reads the SessionInfo; without
\* one, building the arguments throws (sessionInfo.videoSSRC of undefined)
\* before anything is created. Otherwise it creates and binds the socket,
\* spawns the FfmpegProcess, stores the ActiveSession and deletes the
\* SessionInfo.
startLaunch(t) ==
  LET s == starts[t].sid
      sessionInfo == pendingSessions[s]
  IN
  /\ starts[t].pc = "settle"
  /\ IF sessionInfo = NoSession
     THEN /\ starts' = [starts EXCEPT ![t].pc = "threw"]
          /\ UNCHANGED <<pendingSessions, ongoingSessions, lastStoreOp>>
     ELSE /\ starts' = [starts EXCEPT ![t] =
                 [@ EXCEPT !.pc = "done", !.socket = "bound", !.mainProcess = "Starting",
                           !.args = LaunchArgs(sessionInfo, starts[t].video)]]
          /\ ongoingSessions' = [ongoingSessions EXCEPT ![s] = t]
          /\ pendingSessions' = [pendingSessions EXCEPT ![s] = NoSession]
          /\ lastStoreOp' = [lastStoreOp EXCEPT ![s] = "launch"]
  /\ UNCHANGED <<stops, prepared, reconfigures, videoConfig, snapshot, discovery>>

----------------------------------------------------------------------------
\* The delay of the inactivity timer, rtcp_interval * 2 * 1000 ms, in ticks
\* of 1000 ms.
TimeoutOf(rtcp_interval) == rtcp_interval * 2

\* socketMessage without clearTimeout: a pending timer keeps running.
socketMessageKeepsTimer(t) ==
  /\ starts[t].socket \in {"bound", "errored", "stuck"}
  /\ starts' = [starts EXCEPT ![t] =
        [@ EXCEPT !.timeout = "armed",
                  !.left = IF starts[t].timeout = "armed" THEN @
                           ELSE TimeoutOf(starts[t].rtcp_interval),
                  !.quiet = 0,
                  !.renewed = @ \/ (starts[t].timeout = "armed" /\ starts[t].left > 0)]]
  /\ UNCHANGED <<pendingSessions, ongoingSessions, stops, lastStoreOp, prepared, reconfigures, videoConfig, snapshot, discovery>>

\* The watchdog socket's 'message' handler: clears the timeout it holds and
\* arms a new one, which has the whole delay to run.
socketMessage(t) ==
  /\ starts[t].socket \in {"bound", "errored", "stuck"}
  /\ starts' = [starts EXCEPT ![t] =
        [@ EXCEPT !.timeout = "armed",
                  !.left = TimeoutOf(starts[t].rtcp_interval),
                  !.quiet = 0,
                  !.renewed = @ \/ (starts[t].timeout = "armed" /\ starts[t].left > 0)]]
  /\ UNCHANGED <<pendingSessions, ongoingSessions, stops, lastStoreOp, prepared, reconfigures, videoConfig, snapshot, discovery>>

\* The watchdog socket's 'error' handler: logs, nothing else.
socketError(t) ==
  /\ starts[t].socket = "bound"
  /\ starts' = [starts EXCEPT ![t].socket = "errored"]
  /\ UNCHANGED <<pendingSessions, ongoingSessions, stops, lastStoreOp, prepared, reconfigures, videoConfig, snapshot, discovery>>

\* The session's clock is running: a timer is armed, or its socket is open
\* and has not been silent for the whole delay yet.
Clocked(a) ==
  \/ a.timeout = "armed"
  \/ a.socket \in {"bound", "errored", "stuck"} /\ a.quiet < TimeoutOf(a.rtcp_interval)

\* The clock advances by one tick of 1000 ms: every armed timer has one tick
\* less to run, every open socket has been silent one tick longer. A timer
\* that is due runs before the clock advances again.
Tick ==
  /\ \E t \in 1..Len(starts) : Clocked(starts[t])
  /\ \A t \in 1..Len(starts) : starts[t].timeout = "armed" => starts[t].left > 0
  /\ starts' = [t \in 1..Len(starts) |->
        IF Clocked(starts[t])
        THEN [starts[t] EXCEPT
                !.left = IF starts[t].timeout = "armed" THEN @ - 1 ELSE @,
                !.quiet = IF @ < TimeoutOf(starts[t].rtcp_interval) THEN @ + 1 ELSE @]
        ELSE starts[t]]
  /\ UNCHANGED <<pendingSessions, ongoingSessions, stops, lastStoreOp, prepared, reconfigures, videoConfig, snapshot, discovery>>

\* The inactivity timeout expires: the timer's callback logs and asks the
\* controller to force-stop the session.
timeoutExpired(t) ==
  /\ starts[t].timeout = "armed"
  /\ starts[t].left = 0
  /\ starts' = [starts EXCEPT ![t].timeout = "fired"]
  /\ UNCHANGED <<pendingSessions, ongoingSessions, stops, lastStoreOp, prepared, reconfigures, videoConfig, snapshot, discovery>>

----------------------------------------------------------------------------
\* FfmpegProcess (./ffmpeg): first diagnostic output while Starting; the
\* readiness callback fires with success.
processReady(t) ==
  /\ starts[t].mainProcess = "Starting"
  /\ starts' = [starts EXCEPT ![t].mainProcess = "Running", ![t].ready = Append(@, "ok")]
  /\ UNCHANGED <<pendingSessions, ongoingSessions, stops, lastStoreOp, prepared, reconfigures, videoConfig, snapshot, discovery>>

\* FfmpegProcess: the subprocess exits. While Starting the readiness callback
\* fires with a failure; while Running the callback has fired already.
processExit(t) ==
  /\ starts[t].mainProcess \in {"Starting", "Running"}
  /\ starts' = [starts EXCEPT ![t] =
        IF @.mainProcess = "Starting"
        THEN [@ EXCEPT !.mainProcess = "Exited", !.ready = Append(@, "err")]
        ELSE [@ EXCEPT !.mainProcess = "Exited"]]
  /\ UNCHANGED <<pendingSessions, ongoingSessions, stops, lastStoreOp, prepared, reconfigures, videoConfig, snapshot, discovery>>

----------------------------------------------------------------------------
\* A STOP request whose upstream stop-feed call is outstanding. `overlap`
\* records that the continuation of another STOP of the session ran while
\* this one's upstream call was outstanding; `found`, that its own
\* continuation found an ActiveSession.
NewStop(s) == [sid |-> s, pc |-> "http", overlap |-> FALSE, found |-> FALSE]

\* stopStream removing the ActiveSession entry before the upstream call.
stopStreamLocalFirst(s) ==
  /\ Len(starts) + Len(stops) + Len(reconfigures) < MaxRequests
  /\ stops' = Append(stops, NewStop(s))
  /\ ongoingSessions' = [ongoingSessions EXCEPT ![s] = 0]
  /\ UNCHANGED <<pendingSessions, starts, lastStoreOp, prepared, reconfigures, videoConfig, snapshot, discovery>>

\* handleStreamRequest, case STOP: stopStream issues the upstream stop-feed
\* call and returns.
stopStream(s) ==
  /\ Len(starts) + Len(stops) + Len(reconfigures) < MaxRequests
  /\ stops' = Append(stops, NewStop(s))
  /\ UNCHANGED <<pendingSessions, ongoingSessions, starts, lastStoreOp, prepared, reconfigures, videoConfig, snapshot, discovery>>

\* One release step of the stop continuation: skipped once an exception has
\* escaped; an exception escapes when the step throws outside a try block.
ReleaseStep(st, name, throws, inTry) ==
  IF st.raised THEN st
  ELSE [tried |-> st.tried \cup {name},
        failed |-> IF throws THEN st.failed \cup {name} ELSE st.failed,
        raised |-> throws /\ ~inTry]

\* ReleaseAll with socket.close() outside any try block.
ReleaseAllFailFast(closeThrows, stopThrows) ==
  LET r0 == [tried |-> {}, failed |-> {}, raised |-> FALSE]
      r1 == ReleaseStep(r0, "timeout", FALSE, FALSE)
      r2 == ReleaseStep(r1, "socket", closeThrows, FALSE)
      r3 == ReleaseStep(r2, "mainProcess", stopThrows, TRUE)
  IN r3

\* The releases of the stop continuation for a session it found, in the
\* order of the code: clearTimeout, then socket.close() and
\* mainProcess.stop(), each in its own try/catch.
ReleaseAll(closeThrows, stopThrows) ==
  LET r0 == [tried |-> {}, failed |-> {}, raised |-> FALSE]
      r1 == ReleaseStep(r0, "timeout", FALSE, FALSE)
      r2 == ReleaseStep(r1, "socket", closeThrows, TRUE)
      r3 == ReleaseStep(r2, "mainProcess", stopThrows, TRUE)
  IN r3

\* The ActiveSession object after the releases that were tried.
Released(a, r) ==
  [a EXCEPT
     !.timeout = IF "timeout" \in r.tried /\ @ = "armed" THEN "none" ELSE @,
     !.left = IF "timeout" \in r.tried THEN 0 ELSE @,
     !.quiet = IF "socket" \in r.tried /\ "socket" \notin r.failed THEN 0 ELSE @,
     !.socket = IF "socket" \in r.failed THEN "stuck"
                ELSE IF "socket" \in r.tried THEN "closed" ELSE @,
     !.kill = IF "mainProcess" \in r.failed THEN "threw"
              ELSE IF "mainProcess" \in r.tried THEN "sent" ELSE @]

\* The STARTs of session s that are waiting on the upstream call or on the
\* settle delay see a STOP continuation run.
SeeStop(s) ==
  [t \in 1..Len(starts) |->
     IF starts[t].sid = s /\ starts[t].pc \in {"http", "settle"}
     THEN [starts[t] EXCEPT !.stopSeen = TRUE] ELSE starts[t]]

\* The launched STARTs of session s see a STOP continuation run to its end.
SeeStopped(s, all) ==
  [t \in 1..Len(all) |->
     IF all[t].sid = s /\ all[t].pc = "done"
     THEN [all[t] EXCEPT !.stopped = TRUE] ELSE all[t]]

\* The other STOPs of the session of STOP k whose upstream call is
\* outstanding see the continuation of STOP k run.
SeeOverlap(k) ==
  [j \in 1..Len(stops) |->
     IF j # k /\ stops[j].sid = stops[k].sid /\ stops[j].pc = "http"
     THEN [stops[j] EXCEPT !.overlap = TRUE] ELSE stops[j]]

\* stopFeedResolved without `delete this.ongoingSessions[sessionId]`.
stopFeedResolvedKeepsEntry(k, closeThrows, stopThrows) ==
  LET s == stops[k].sid
      session == ongoingSessions[s]
      r == IF session # 0 THEN ReleaseAll(closeThrows, stopThrows)
           ELSE [tried |-> {}, failed |-> {}, raised |-> FALSE]
  IN
  /\ stops[k].pc = "http"
  /\ session = 0 => ~closeThrows /\ ~stopThrows
  /\ starts' = LET released == IF session # 0
                               THEN [SeeStop(s) EXCEPT ![session] = Released(@, r)]
                               ELSE SeeStop(s)
               IN IF r.raised THEN released ELSE SeeStopped(s, released)
  /\ stops' = [SeeOverlap(k) EXCEPT ![k].pc = "done", ![k].found = session # 0]
  /\ lastStoreOp' = [lastStoreOp EXCEPT ![s] = "stop"]
  /\ UNCHANGED <<pendingSessions, ongoingSessions, prepared, reconfigures, videoConfig, snapshot, discovery>>

\* httpService.stopStream resolves: the continuation releases what the
\* ActiveSession of the id holds, deletes the entry and calls back.
stopFeedResolved(k, closeThrows, stopThrows) ==
  LET s == stops[k].sid
      session == ongoingSessions[s]
      r == IF session # 0 THEN ReleaseAll(closeThrows, stopThrows)
           ELSE [tried |-> {}, failed |-> {}, raised |-> FALSE]
  IN
  /\ stops[k].pc = "http"
  /\ session = 0 => ~closeThrows /\ ~stopThrows
  /\ starts' = LET released == IF session # 0
                               THEN [SeeStop(s) EXCEPT ![session] = Released(@, r)]
                               ELSE SeeStop(s)
               IN IF r.raised THEN released ELSE SeeStopped(s, released)
  /\ IF r.raised
     THEN /\ stops' = [SeeOverlap(k) EXCEPT ![k].pc = "threw", ![k].found = session # 0]
          /\ UNCHANGED <<ongoingSessions, lastStoreOp>>
     ELSE /\ stops' = [SeeOverlap(k) EXCEPT ![k].pc = "done", ![k].found = session # 0]
          /\ ongoingSessions' = [ongoingSessions EXCEPT ![s] = 0]
          /\ lastStoreOp' = [lastStoreOp EXCEPT ![s] = "stop"]
  /\ UNCHANGED <<pendingSessions, prepared, reconfigures, videoConfig, snapshot, discovery>>

\* httpService.stopStream rejects: the chain has no catch, so the
\* continuation never runs.
stopFeedRejected(k) ==
  /\ stops[k].pc = "http"
  /\ stops' = [stops EXCEPT ![k].pc = "rejected"]
  /\ UNCHANGED <<pendingSessions, ongoingSessions, starts, lastStoreOp, prepared, reconfigures, videoConfig, snapshot, discovery>>

----------------------------------------------------------------------------
\* A RECONFIGURE request: the state it found the session in (none | pending |
\* active) and the calls of its callback.
NewReconfigure(s) ==
  [sid |-> s,
   found |-> IF ongoingSessions[s] # 0 THEN "active"
             ELSE IF pendingSessions[s] # NoSession THEN "pending" ELSE "none",
   callbacks |-> <<"ok">>]

\* reconfigure falling through into a removal of the ActiveSession entry.
reconfigureDropsSession(s) ==
  /\ Len(starts) + Len(stops) + Len(reconfigures) < MaxRequests
  /\ reconfigures' = Append(reconfigures, NewReconfigure(s))
  /\ ongoingSessions' = [ongoingSessions EXCEPT ![s] = 0]
  /\ UNCHANGED <<pendingSessions, starts, stops, lastStoreOp, prepared, videoConfig, snapshot, discovery>>

\* handleStreamRequest, case RECONFIGURE: logs the request and calls back
\* without an error.
reconfigure(s) ==
  /\ Len(starts) + Len(stops) + Len(reconfigures) < MaxRequests
  /\ reconfigures' = Append(reconfigures, NewReconfigure(s))
  /\ UNCHANGED <<pendingSessions, ongoingSessions, starts, stops, lastStoreOp, prepared, videoConfig, snapshot, discovery>>

----------------------------------------------------------------------------
\* Device discovery of the platform. The hubs and devices the upstream
\* service lists: serial numbers and device types.
HubSns == {"H1", "H2"}
DoorbellTypes == {"BATTERY_DOORBELL", "BATTERY_DOORBELL_2", "DOORBELL"}
Devices ==
  {[device_sn |-> "D1", device_type |-> "BATTERY_DOORBELL"],
   [device_sn |-> "D2", device_type |-> "DOORBELL"],
   [device_sn |-> "D3", device_type |-> "INDOOR_CAMERA"]}

\* The answers of listHubs: up to two hubs, none twice.
HubListings ==
  {<<>>} \cup {<<h>> : h \in HubSns} \cup {p \in HubSns \X HubSns : p[1] # p[2]}

\* The answers of listDevices: up to two devices, none twice.
DeviceListings ==
  {<<>>} \cup {<<d>> : d \in Devices} \cup {p \in Devices \X Devices : p[1] # p[2]}

\* api.hap.uuid.generate: the UUID derived from a serial number.
UuidOf(device_sn) == "uuid-of-" \o device_sn

\* The platform after construction:
\*   accessories  the UUIDs of this.accessories
\*   pc           cache (the host restores cached accessories) | hubs
\*                (listHubs pending) | devices (listDevices pending) | done
\*   hubs         the hubs still to be visited, the one asked about first
\*   listed       the device listings received, in order
\*   restored     the UUIDs of the cached accessories handed to a handler
\*   registered   the UUIDs passed to registerPlatformAccessories, in order
NewDiscovery(ignoreHubSns, ignoreDeviceSns) ==
  [ignoreHubSns |-> ignoreHubSns, ignoreDeviceSns |-> ignoreDeviceSns,
   accessories |-> {}, pc |-> "cache", hubs |-> <<>>, listed |-> <<>>,
   restored |-> <<>>, registered |-> <<>>]

\* configureAccessory: the host hands over an accessory restored from its
\* cache, before it signals didFinishLaunching.
configureAccessory(uuid) ==
  /\ discovery.pc = "cache"
  /\ discovery' = [discovery EXCEPT !.accessories = @ \cup {uuid}]
  /\ UNCHANGED <<pendingSessions, ongoingSessions, starts, stops, lastStoreOp, prepared,
                 reconfigures, videoConfig, snapshot>>

\* didFinishLaunching: discoverDevices asks for the hubs.
discoverDevices ==
  /\ discovery.pc = "cache"
  /\ discovery' = [discovery EXCEPT !.pc = "hubs"]
  /\ UNCHANGED <<pendingSessions, ongoingSessions, starts, stops, lastStoreOp, prepared,
                 reconfigures, videoConfig, snapshot>>

\* The hubs of a listing that are not on the ignore list, in order: the
\* loop skips the others without asking about them.
Visited(hubs) == SelectSeq(hubs, LAMBDA h : h \notin discovery.ignoreHubSns)

\* listHubs resolves: the loop runs to the first hub not ignored and asks
\* for its devices.
listHubsResolved(hubs) ==
  /\ discovery.pc = "hubs"
  /\ discovery' = [discovery EXCEPT !.hubs = Visited(hubs),
                                    !.pc = IF Visited(hubs) = <<>> THEN "done" ELSE "devices"]
  /\ UNCHANGED <<pendingSessions, ongoingSessions, starts, stops, lastStoreOp, prepared,
                 reconfigures, videoConfig, snapshot>>

\* The devices of a listing the loop works on: those not on the ignore list
\* and of a doorbell type.
Doorbells(devices) ==
  SelectSeq(devices, LAMBDA d : /\ d.device_sn \notin discovery.ignoreDeviceSns
                                /\ d.device_type \in DoorbellTypes)

\* The UUIDs of a sequence of devices.
UuidsOf(devices) == [i \in 1..Len(devices) |-> UuidOf(devices[i].device_sn)]

\* The UUIDs the loop over a listing registers: those of its doorbells that
\* this.accessories does not hold. The loop adds nothing to this.accessories.
RegisteredOf(devices) ==
  SelectSeq(UuidsOf(Doorbells(devices)), LAMBDA u : u \notin discovery.accessories)

\* The UUIDs the loop over a listing restores from this.accessories.
RestoredOf(devices) ==
  SelectSeq(UuidsOf(Doorbells(devices)), LAMBDA u : u \in discovery.accessories)

\* listDevices resolves for the hub asked about: the loop over its devices
\* restores or registers an accessory for each doorbell not ignored, then
\* asks about the next hub or ends.
listDevicesResolved(devices) ==
  /\ discovery.pc = "devices"
  /\ discovery' = [discovery EXCEPT
        !.listed = Append(@, [station_sn |-> Head(discovery.hubs), devices |-> devices]),
        !.restored = @ \o RestoredOf(devices),
        !.registered = @ \o RegisteredOf(devices),
        !.hubs = Tail(@),
        !.pc = IF Tail(discovery.hubs) = <<>> THEN "done" ELSE "devices"]
  /\ UNCHANGED <<pendingSessions, ongoingSessions, starts, stops, lastStoreOp, prepared,
                 reconfigures, videoConfig, snapshot>>

----------------------------------------------------------------------------
InitOver(config, ignoreHubSns, ignoreDeviceSns) ==
  /\ pendingSessions = [s \in Ids |-> NoSession]
  /\ ongoingSessions = [s \in Ids |-> 0]
  /\ starts = <<>>
  /\ stops = <<>>
  /\ lastStoreOp = [s \in Ids |-> "none"]
  /\ prepared = NoCall
  /\ reconfigures = <<>>
  /\ videoConfig = config
  /\ snapshot = NoCall
  /\ discovery = NewDiscovery(ignoreHubSns, ignoreDeviceSns)

\* The delegate and the platform as constructed, with the videoConfig of the source
\* and no ignore lists.
Init == InitOver(DefaultVideoConfig, {}, {})

\* The next-state relation of the session lifecycle over the session ids,
\* the prepare requests and the request.video of the STARTs the controller sends, the
\* synchronisation sources generated, the local addresses found, and the
\* outcomes (throws or not) a release call (socket.close(),
\* mainProcess.stop()) may have.
NextOver(ids, reqs, ssrcs, addrs, videos, throws) ==
  \/ \E s \in ids, req \in reqs, ssrc \in ssrcs, currentAddress \in addrs :
        prepareStream(s, req, ssrc, currentAddress)
  \/ \E s \in ids, video \in videos : startStream(s, video)
  \/ \E t \in 1..Len(starts) : startFeedResolved(t)
  \/ \E t \in 1..Len(starts) : startFeedRejected(t)
  \/ \E t \in 1..Len(starts) : startLaunch(t)
  \/ \E t \in 1..Len(starts) : socketMessage(t)
  \/ \E t \in 1..Len(starts) : timeoutExpired(t)
  \/ \E t \in 1..Len(starts) : processReady(t)
  \/ \E t \in 1..Len(starts) : processExit(t)
  \/ \E s \in ids : stopStream(s)
  \/ \E k \in 1..Len(stops), closeThrows \in throws, stopThrows \in throws :
        stopFeedResolved(k, closeThrows, stopThrows)
  \/ \E k \in 1..Len(stops) : stopFeedRejected(k)

\* One session, one prepare request, one synchronisation source;
\* socket.close() and mainProcess.stop() may throw. The clock is left out:
\* with an rtcp interval of 0 a timer is due from the moment it is armed and
\* expires at any later moment.
Next ==
  NextOver({"A"}, {r \in PrepareRequests : r.port = 52000}, {11}, LocalAddresses, {VideoOf(0)}, BOOLEAN)

Spec == Init /\ [][Next]_vars

\* The watchdog under the clock: one session and at most MaxStarts STARTs,
\* rtcp interval 1 (a timeout of two ticks), no release call throws.
NextWatchdog ==
  \/ /\ NextOver({"A"}, {r \in PrepareRequests : r.port = 52000}, {11}, LocalAddresses, {VideoOf(1)}, {FALSE})
     /\ Len(starts') <= MaxStarts
  \/ Tick

SpecWatchdog == Init /\ [][NextWatchdog]_vars

\* The lifecycle with socket errors: one session and at most MaxStarts
\* STARTs, the clock left out, no release call throws.
NextSocketError ==
  \/ /\ NextOver({"A"}, {r \in PrepareRequests : r.port = 52000}, {11}, LocalAddresses, {VideoOf(0)}, {FALSE})
     /\ Len(starts') <= MaxStarts
  \/ \E t \in 1..Len(starts) : socketError(t)

\* The event loop runs what is due: a timer that has run out, the
\* continuation after the settle delay, and the outcome of an upstream call
\* once it has arrived. Requests, datagrams, socket errors and the exit of the
\* subprocess are up to the environment.
SpecSocketError ==
  /\ Init
  /\ [][NextSocketError]_vars
  /\ WF_vars(\E t \in 1..Len(starts) : timeoutExpired(t))
  /\ WF_vars(\E t \in 1..Len(starts) : startLaunch(t))
  /\ WF_vars(\E t \in 1..Len(starts) : startFeedResolved(t) \/ startFeedRejected(t))
  /\ WF_vars(\E k \in 1..Len(stops) : stopFeedResolved(k, FALSE, FALSE) \/ stopFeedRejected(k))

\* The lifecycle with RECONFIGURE requests: one session, no release call
\* throws.
NextReconfigure ==
  \/ NextOver({"A"}, {r \in PrepareRequests : r.port = 52000}, {11}, LocalAddresses, {VideoOf(0)}, {FALSE})
  \/ \E s \in {"A"} : reconfigure(s)

SpecReconfigure == Init /\ [][NextReconfigure]_vars

\* Relaunches: one session, any number of STARTs within MaxRequests, the
\* clock left out, no release call throws.
NextRelaunch ==
  NextOver({"A"}, {r \in PrepareRequests : r.port = 52000}, {11}, LocalAddresses,
           {VideoOf(0)}, {FALSE})

SpecRelaunch == Init /\ [][NextRelaunch]_vars

\* Negotiation: one session and at most MaxStarts STARTs, the prepare
\* request for port 52002 and every synchronisation source, no release call
\* throws.
NextNegotiate ==
  /\ NextOver({"A"}, {r \in PrepareRequests : r.port = 52002}, SSRCs, LocalAddresses,
              {VideoOf(0)}, {FALSE})
  /\ Len(starts') <= MaxStarts

SpecNegotiate == Init /\ [][NextNegotiate]_vars

\* The loopback address ip.address falls back to when no interface has an
\* address of the requested family.
Loopback == "127.0.0.1"

\* Negotiation on a host that may have no address of the requested family:
\* one session and at most MaxStarts STARTs, no release call throws.
NextNoAddress ==
  /\ NextOver({"A"}, {r \in PrepareRequests : r.port = 52000}, {11},
              LocalAddresses \cup {Loopback}, {VideoOf(0)}, {FALSE})
  /\ Len(starts') <= MaxStarts

SpecNoAddress == Init /\ [][NextNoAddress]_vars

\* The resolution policy: every configuration, snapshot requests, and the
\* launches of one session up to the point the subprocess is spawned.
InitResolution == \E config \in VideoConfigs : InitOver(config, {}, {})

NextResolution ==
  \/ \E request \in SnapshotRequests : handleSnapshotRequest(request)
  \/ \E req \in {r \in PrepareRequests : r.port = 52000} :
        prepareStream("A", req, 11, "192.168.1.20")
  \/ \E video \in VideoRequests : startStream("A", video) /\ Len(starts') <= MaxStarts
  \/ \E t \in 1..Len(starts) : startFeedResolved(t)
  \/ \E t \in 1..Len(starts) : startLaunch(t)

SpecResolution == InitResolution /\ [][NextResolution]_vars

\* Two sessions, each prepared, started, fed with datagrams and stopped:
\* every upstream call succeeds, no release call throws, the subprocesses
\* keep running and the clock is left out.
NextTwoSessions ==
  \/ \E s \in Ids, req \in {r \in PrepareRequests : r.port = 52000} :
        prepareStream(s, req, 11, "192.168.1.20")
  \/ \E s \in Ids : startStream(s, VideoOf(1))
  \/ \E t \in 1..Len(starts) : startFeedResolved(t)
  \/ \E t \in 1..Len(starts) : startLaunch(t)
  \/ \E t \in 1..Len(starts) : socketMessage(t)
  \/ \E s \in Ids : stopStream(s)
  \/ \E k \in 1..Len(stops) : stopFeedResolved(k, FALSE, FALSE)

SpecTwoSessions == Init /\ [][NextTwoSessions]_vars

\* Device discovery: the ignore lists of the platform configuration, the
\* cached accessories and the listings of the upstream service.
InitDiscovery ==
  \E ignoreHubSns \in SUBSET {"H2"}, ignoreDeviceSns \in SUBSET {"D2"} :
     InitOver(DefaultVideoConfig, ignoreHubSns, ignoreDeviceSns)

NextDiscovery ==
  \/ \E d \in Devices : configureAccessory(UuidOf(d.device_sn))
  \/ discoverDevices
  \/ \E hubs \in HubListings : listHubsResolved(hubs)
  \/ \E devices \in DeviceListings : listDevicesResolved(devices)

SpecDiscovery == InitDiscovery /\ [][NextDiscovery]_vars

----------------------------------------------------------------------------
\* Shorthands of the properties below.
StartIds == 1..Len(starts)
StopIds == 1..Len(stops)
\* The START's promise chain is over and its subprocess, if any, has exited.
StartOver(t) ==
  \/ starts[t].pc \in {"rejected", "threw"}
  \/ starts[t].pc = "done" /\ starts[t].mainProcess = "Exited"
\* In this step the continuation of START t launches.
Launches(t) == starts[t].pc = "settle" /\ starts'[t].pc = "done"
\* In this step the continuation of STOP k runs.
StopRuns(k) == stops[k].pc = "http" /\ stops'[k].pc \notin {"http", "rejected"}

\* C1: no session id has a record in both the pending-session store and the
\* active-session store at the same time.
C1_PendingXorActive ==
  \A s \in Ids : ~(pendingSessions[s] # NoSession /\ ongoingSessions[s] # 0)

\* C2: when a STOP continuation of the session ran while START t was waiting
\* on the upstream call or the settle delay, then once START t has run to
\* completion the store holds no ActiveSession of t and nothing t created is
\* left unreleased.
C2_StopDuringStartLeavesNothing ==
  \A t \in StartIds :
    (starts[t].stopSeen /\ starts[t].pc \in {"done", "threw", "rejected"})
      => (ongoingSessions[starts[t].sid] # t /\ ~Unreleased(starts[t]))

\* C3: when the upstream stop-feed call of a STOP fails while the session is
\* Active, its timer is cancelled, its socket closed, its subprocess stopped
\* and its record removed all the same.
C3_StopFailureStillTearsDown ==
  [][\A k \in StopIds :
       LET s == stops[k].sid IN
       (stops[k].pc = "http" /\ stops'[k].pc = "rejected" /\ ongoingSessions[s] # 0)
         => LET a == starts'[ongoingSessions[s]] IN
            /\ ongoingSessions'[s] = 0
            /\ a.timeout # "armed"
            /\ a.socket = "closed"
            /\ a.kill = "sent"]_vars

\* C4: the START callback is never called more than once, and a START whose
\* promise chain and subprocess are over has had it called exactly once.
C4_ReadyCallbackExactlyOnce ==
  \A t \in StartIds :
    /\ Len(starts[t].ready) <= 1
    /\ StartOver(t) => Len(starts[t].ready) = 1

\* C5: when the upstream start-feed call of a START rejects, the START
\* callback receives an error, the START creates no ActiveSession and the
\* PendingSession of the id is cleared.
C5_StartFeedRejectionReported ==
  [][\A t \in StartIds :
       LET s == starts[t].sid IN
       (starts[t].pc = "http" /\ starts'[t].pc = "rejected")
         => /\ starts'[t].ready = <<"err">>
            /\ ongoingSessions'[s] # t
            /\ pendingSessions'[s] = NoSession]_vars

\* C6: a START whose continuation finds no PendingSession signals an error to
\* the caller and creates no ActiveSession, socket or subprocess.
C6_UnknownSessionSignalled ==
  [][\A t \in StartIds :
       LET s == starts[t].sid IN
       (starts[t].pc = "settle" /\ starts'[t].pc # "settle" /\ pendingSessions[s] = NoSession)
         => /\ starts'[t].ready = <<"err">>
            /\ ongoingSessions'[s] # t
            /\ starts'[t].socket = "none"
            /\ starts'[t].mainProcess = "none"]_vars

\* C7: a subprocess is never launched for an id while an earlier launch for
\* the same id still holds an unreleased socket, timer or subprocess, and a
\* launch never overwrites an ActiveSession record.
C7_NoDoubleLaunch ==
  [][\A t \in StartIds :
       LET s == starts[t].sid IN
       Launches(t)
         => /\ ongoingSessions[s] = 0
            /\ \A u \in StartIds : (u # t /\ starts[u].sid = s) => ~Unreleased(starts[u])]_vars

\* C8: when the continuation of a STOP finds an ActiveSession, the timer is
\* cancelled and both socket.close() and mainProcess.stop() are called,
\* whichever of them throws, and the continuation runs to its end (the entry
\* is deleted and the STOP callback called): nothing is raised.
C8_ReleasesIndependent ==
  [][\A k \in StopIds :
       LET s == stops[k].sid IN
       (StopRuns(k) /\ ongoingSessions[s] # 0)
         => LET a == starts'[ongoingSessions[s]] IN
            /\ a.timeout # "armed"
            /\ a.socket \in {"closed", "stuck"}
            /\ a.kill \in {"sent", "threw"}
            /\ stops'[k].pc = "done"
            /\ ongoingSessions'[s] = 0]_vars

\* C8 witness: a STOP continuation ran to its end on a session whose
\* socket.close() threw, and mainProcess.stop() was still called.
C8_Witness ==
  \E k \in StopIds, t \in StartIds :
    /\ stops[k].pc = "done" /\ stops[k].sid = starts[t].sid
    /\ starts[t].socket = "stuck"
    /\ starts[t].kill = "sent"

\* C9: when the continuation of a STOP has run, neither store holds a record
\* of the id.
C9_StopRemovesEveryRecord ==
  [][\A k \in StopIds :
       LET s == stops[k].sid IN
       StopRuns(k) => (pendingSessions'[s] = NoSession /\ ongoingSessions'[s] = 0)]_vars

\* C10: a STOP continuation that runs right after another STOP continuation
\* of the same id leaves both stores as the first left them, with no record of
\* the id.
C10_StopTwiceLikeOnce ==
  [][\A k \in StopIds :
       LET s == stops[k].sid IN
       (StopRuns(k) /\ lastStoreOp[s] = "stop")
         => /\ pendingSessions' = pendingSessions
            /\ ongoingSessions' = ongoingSessions
            /\ pendingSessions'[s] = NoSession
            /\ ongoingSessions'[s] = 0]_vars

\* What an ActiveSession object holds: socket, timer, subprocess.
Resources(a) == <<a.socket, a.timeout, a.left, a.mainProcess, a.kill>>

C12_UpstreamStopFirst ==
  [][/\ Len(stops') > Len(stops) =>
          /\ stops'[Len(stops')].pc = "http"
          /\ starts' = starts
          /\ pendingSessions' = pendingSessions
          /\ ongoingSessions' = ongoingSessions
     /\ \A s \in Ids :
          (ongoingSessions[s] # 0 /\ ongoingSessions'[s] = 0) =>
             \E k \in StopIds : stops[k].sid = s /\ stops[k].pc = "http" /\ stops'[k].pc = "done"
     /\ \A t \in StartIds :
          (starts[t].kill = "none" /\ starts'[t].kill # "none") =>
             \E k \in StopIds : stops[k].sid = starts[t].sid /\ stops[k].pc = "http" /\ stops'[k].found]_vars

\* C12 witness: the upstream call of a STOP is outstanding while the
\* ActiveSession of the id is stored and holds its socket, its armed timer and
\* its running subprocess, all untouched.
C12_Witness ==
  \E k \in StopIds :
    LET s == stops[k].sid IN
    /\ stops[k].pc = "http"
    /\ ongoingSessions[s] # 0
    /\ starts[ongoingSessions[s]].socket = "bound"
    /\ starts[ongoingSessions[s]].timeout = "armed"
    /\ starts[ongoingSessions[s]].mainProcess = "Running"
    /\ starts[ongoingSessions[s]].kill = "none"

\* C13: an Active session whose socket has received no datagram for the whole
\* inactivity timeout, counted from the last datagram or, when none has
\* arrived, from the bind, has had its force-termination requested by the one
\* timer that ran out (or that timer is due).
C13_SilenceForcesStop ==
  \A s \in Ids :
    ongoingSessions[s] # 0 =>
      LET a == starts[ongoingSessions[s]] IN
      (a.socket = "bound" /\ a.quiet = TimeoutOf(a.rtcp_interval))
        => \/ a.timeout = "fired"
           \/ a.timeout = "armed" /\ a.left = 0

\* C14: the watchdog requests force-termination only when the socket has been
\* silent for the whole inactivity timeout: every datagram cancels the pending
\* timer and arms a fresh one, so the timer that is pending is always the one
\* the last datagram armed, and a timer runs out only after a silence as long
\* as its delay.
C14_DatagramsHoldOffForceStop ==
  [][\A t \in StartIds :
       /\ starts'[t].timeout = "armed" =>
             starts'[t].left + starts'[t].quiet = TimeoutOf(starts'[t].rtcp_interval)
       /\ (starts[t].timeout = "armed" /\ starts'[t].timeout = "fired") =>
             starts[t].quiet = TimeoutOf(starts[t].rtcp_interval)]_vars

\* C14 witness: an Active session whose socket received a datagram while the
\* timer armed by the previous one was still running; the new timer is
\* pending with its whole delay ahead and no force-termination was requested.
C14_Witness ==
  \E s \in Ids :
    /\ ongoingSessions[s] # 0
    /\ starts[ongoingSessions[s]].renewed
    /\ starts[ongoingSessions[s]].timeout = "armed"
    /\ starts[ongoingSessions[s]].left = TimeoutOf(starts[ongoingSessions[s]].rtcp_interval)
    /\ starts[ongoingSessions[s]].left > 0

\* START t built the ActiveSession stored for its id and its subprocess has
\* signalled readiness.
Active(t) ==
  /\ t \in StartIds
  /\ ongoingSessions[starts[t].sid] = t
  /\ starts[t].ready = <<"ok">>

\* One of the three resources of the session of START t is gone outside a
\* teardown: the subprocess has exited, the socket has failed or the timer
\* has run out.
Lost(t) ==
  /\ Active(t)
  /\ starts[t].kill = "none"
  /\ \/ starts[t].mainProcess = "Exited"
     \/ starts[t].socket = "errored"
     \/ starts[t].timeout = "fired"

\* The teardown of the session of START t has been triggered: its timer or
\* the supervisor of its subprocess asked the controller to force-stop it, or
\* a STOP continuation has released it.
TeardownTriggered(t) ==
  /\ t \in StartIds
  /\ \/ starts[t].timeout = "fired"
     \/ starts[t].mainProcess = "Exited" /\ starts[t].ready = <<"ok">>
     \/ starts[t].kill # "none"

\* C15: when the subprocess, the socket or the timer of an Active session is
\* gone outside a teardown, the teardown of the session is eventually
\* triggered.
C15_LossTriggersTeardown ==
  \A t \in 1..MaxRequests : Lost(t) ~> TeardownTriggered(t)

\* C16: when the continuation of a START promotes the session, the
\* PendingSession of the id is removed and the ActiveSession stored for it
\* holds a subprocess, a watchdog socket and an inactivity timer.
C16_PromotionHoldsAllThree ==
  [][\A t \in StartIds :
       LET s == starts[t].sid IN
       Launches(t)
         => /\ pendingSessions'[s] = NoSession
            /\ ongoingSessions'[s] = t
            /\ starts'[t].mainProcess # "none"
            /\ starts'[t].socket # "none"
            /\ starts'[t].timeout # "none"]_vars

\* C17: when the subprocess a START launched exits before it has signalled
\* readiness, the START callback receives an error and the store holds no
\* ActiveSession of that START afterwards.
C17_EarlyExitLeavesNoSession ==
  [][\A t \in StartIds :
       (starts[t].mainProcess = "Starting" /\ starts'[t].mainProcess = "Exited")
         => /\ starts'[t].ready = <<"err">>
            /\ ongoingSessions'[starts[t].sid] # t]_vars

\* C18: a RECONFIGURE request, whatever state it finds the session in, has its
\* callback called once without an error and changes neither the pending
\* store, nor the active store, nor any ActiveSession object.
C18_ReconfigureChangesNothing ==
  [][Len(reconfigures') > Len(reconfigures) =>
       /\ reconfigures'[Len(reconfigures')].callbacks = <<"ok">>
       /\ pendingSessions' = pendingSessions
       /\ ongoingSessions' = ongoingSessions
       /\ starts' = starts]_vars

\* C18 witness: a RECONFIGURE found the session Active and was called back
\* without an error; the ActiveSession is stored and holds its socket and its
\* running subprocess.
C18_Witness ==
  \E r \in 1..Len(reconfigures) :
    LET s == reconfigures[r].sid IN
    /\ reconfigures[r].found = "active"
    /\ reconfigures[r].callbacks = <<"ok">>
    /\ ongoingSessions[s] # 0
    /\ starts[ongoingSessions[s]].socket = "bound"
    /\ starts[ongoingSessions[s]].mainProcess = "Running"

\* C19: after a prepare call for an id that already had a PendingSession, and
\* before anything else wrote the stores under the id, the pending store
\* holds for the id the one record with the address, port, crypto suite,
\* key followed by salt, and synchronisation source of that last call.
C19_SecondPrepareWins ==
  \A s \in Ids :
    (prepared # NoCall /\ prepared.sid = s /\ lastStoreOp[s] = "prepare")
      => /\ pendingSessions[s] # NoSession
         /\ pendingSessions[s].address = prepared.request.targetAddress
         /\ pendingSessions[s].videoPort = prepared.request.port
         /\ pendingSessions[s].videoCryptoSuite = prepared.request.srtpCryptoSuite
         /\ pendingSessions[s].videoSRTP = prepared.request.srtp_key \o prepared.request.srtp_salt
         /\ pendingSessions[s].videoSSRC = prepared.ssrc

\* C19 witness: before any START, a prepare call replaced the different
\* PendingSession an earlier call had stored under the id.
C19_Witness ==
  /\ prepared # NoCall
  /\ prepared.replaced
  /\ lastStoreOp[prepared.sid] = "prepare"
  /\ pendingSessions[prepared.sid] # NoSession
  /\ starts = <<>>

\* C20: the response of a prepare call carries the video port, the SRTP key
\* and the SRTP salt of its request, and the synchronisation source the call
\* generated, which is the one in the PendingSession the call stored.
C20_ResponseEchoesRequest ==
  prepared # NoCall =>
    /\ prepared.response.video.port = prepared.request.port
    /\ prepared.response.video.srtp_key = prepared.request.srtp_key
    /\ prepared.response.video.srtp_salt = prepared.request.srtp_salt
    /\ prepared.response.video.ssrc = prepared.ssrc
    /\ lastStoreOp[prepared.sid] = "prepare" =>
          prepared.response.video.ssrc = pendingSessions[prepared.sid].videoSSRC

\* C20 witness: a prepare call for port 52002 generated the synchronisation
\* source 12; its PendingSession is stored and its response was called back.
C20_Witness ==
  /\ prepared # NoCall
  /\ prepared.request.port = 52002
  /\ prepared.response.video.ssrc = 12
  /\ lastStoreOp[prepared.sid] = "prepare"
  /\ pendingSessions[prepared.sid].videoSSRC = 12

\* C21: a prepare call that finds no address of the requested family (the
\* address lookup falls back to the loopback address) hands an error to its
\* callback instead of a success response.
C21_NoAddressSignalsFailure ==
  (prepared # NoCall /\ prepared.response.address = Loopback)
    => prepared.error # "undefined"

\* Shorthands: the STARTs that have launched a subprocess, and the filters
\* configured.
Launched == {t \in StartIds : starts[t].args # NoArgs}
Configured == FiltersOf(videoConfig.videoFilter)
HasNone == \E i \in 1..Len(Configured) : Configured[i] = "none"
Others == SelectSeq(Configured, LAMBDA f : f # "none")

\* C22: for a launch, each dimension the resolution policy returns is the
\* configured maximum exactly when forceMax is set with a non-zero maximum
\* or the requested dimension is above the maximum, and the requested
\* dimension otherwise; for a snapshot it returns the requested dimensions.
C22_ClampsStreamsOnly ==
  /\ snapshot # NoCall =>
       /\ snapshot.resolution.width = snapshot.request.width
       /\ snapshot.resolution.height = snapshot.request.height
  /\ \A t \in Launched :
       LET video == starts[t].video
           policy == starts[t].args.policy
           forceWidth == videoConfig.forceMax /\ videoConfig.maxWidth # 0
           forceHeight == videoConfig.forceMax /\ videoConfig.maxHeight # 0
       IN /\ (forceWidth \/ video.width > videoConfig.maxWidth)
               => policy.width = videoConfig.maxWidth
          /\ ~(forceWidth \/ video.width > videoConfig.maxWidth)
               => policy.width = video.width
          /\ (forceHeight \/ video.height > videoConfig.maxHeight)
               => policy.height = videoConfig.maxHeight
          /\ ~(forceHeight \/ video.height > videoConfig.maxHeight)
               => policy.height = video.height

\* C22 witness: without forceMax and with the maxima 1280 and 720, a launch
\* for 1920x480 got 1280x480 and a snapshot for 1920x1080 got 1920x1080.
C22_Witness ==
  /\ ~videoConfig.forceMax /\ videoConfig.maxWidth = 1280
  /\ snapshot # NoCall /\ snapshot.request.width = 1920 /\ snapshot.resolution.width = 1920
  /\ \E t \in Launched :
       /\ starts[t].video.width = 1920 /\ starts[t].video.height = 480
       /\ starts[t].args.policy.width = 1280 /\ starts[t].args.policy.height = 480

\* C23: under a configuration whose filters hold "none", the filter string
\* of every snapshot and launch is the other configured filters joined,
\* without the rounding filter, and empty when there is no other filter.
C23_NoneSuppressesRounding ==
  HasNone =>
    /\ snapshot # NoCall =>
         /\ snapshot.resolution.videoFilter = Join(Others)
         /\ Others = <<>> => snapshot.resolution.videoFilter = ""
    /\ \A t \in Launched :
         /\ starts[t].args.policy.videoFilter = Join(Others)
         /\ Others = <<>> => starts[t].args.policy.videoFilter = ""

\* C23 witness: with the filter "none" configured, a snapshot and a launch
\* with positive dimensions both got the empty filter string.
C23_Witness ==
  /\ videoConfig.videoFilter = [kind |-> "string", value |-> <<"none">>]
  /\ snapshot # NoCall /\ snapshot.resolution.width > 0 /\ snapshot.resolution.videoFilter = ""
  /\ \E t \in Launched :
       /\ starts[t].args.policy.width > 0
       /\ starts[t].args.policy.videoFilter = ""

\* The filter string C24 expects when rounding applies.
Rounded == IF Configured = <<>> THEN RoundingFilter ELSE Join(Configured) \o "," \o RoundingFilter

\* C24: under a configuration without "none", a snapshot or launch with a
\* positive resulting dimension gets the configured filters in order followed
\* by the rounding filter; with no positive resulting dimension it gets the
\* configured filters alone.
C24_RoundingComesLast ==
  ~HasNone =>
    /\ snapshot # NoCall =>
         snapshot.resolution.videoFilter =
           IF snapshot.resolution.width > 0 \/ snapshot.resolution.height > 0
           THEN Rounded ELSE Join(Configured)
    /\ \A t \in Launched :
         starts[t].args.policy.videoFilter =
           IF starts[t].args.policy.width > 0 \/ starts[t].args.policy.height > 0
           THEN Rounded ELSE Join(Configured)

\* C24 witness: with the filters hflip and vflip configured, a launch for
\* 640x480 got them followed by the rounding filter and a snapshot for 0x0
\* got them alone.
C24_Witness ==
  /\ videoConfig.videoFilter = [kind |-> "array", value |-> <<"hflip", "vflip">>]
  /\ snapshot # NoCall /\ snapshot.resolution.width = 0 /\ snapshot.resolution.height = 0
  /\ snapshot.resolution.videoFilter = "hflip,vflip"
  /\ \E t \in Launched :
       /\ starts[t].args.policy.width = 640
       /\ starts[t].args.policy.videoFilter = "hflip,vflip,scale='trunc(iw/2)*2':'trunc(ih/2)*2'"

\* C25: with vcodec copy, every launch uses the resolution 0x0, an empty
\* filter string, frame rate 0 and bitrate 0.
C25_CopyZeroesEverything ==
  videoConfig.vcodec = "copy" =>
    \A t \in Launched :
      /\ starts[t].args.width = 0
      /\ starts[t].args.height = 0
      /\ starts[t].args.videoFilter = ""
      /\ starts[t].args.fps = 0
      /\ starts[t].args.videoBitrate = 0

\* C25 witness: with vcodec copy, a launch for 1920x1080 at 30 frames a
\* second, for which the resolution policy returned 1280x720 and a filter,
\* uses 0x0, no filter and the rates 0.
C25_Witness ==
  /\ videoConfig.vcodec = "copy"
  /\ \E t \in Launched :
       /\ starts[t].video.width = 1920 /\ starts[t].video.fps = 30
       /\ starts[t].args.policy.width = 1280 /\ starts[t].args.policy.videoFilter # ""
       /\ starts[t].args.width = 0 /\ starts[t].args.videoFilter = "" /\ starts[t].args.fps = 0

\* In this step a handler or continuation of a prepare, START or STOP of
\* session s runs.
Acts(s) ==
  \/ prepared' # prepared /\ prepared'.sid = s
  \/ Len(starts') > Len(starts) /\ starts'[Len(starts')].sid = s
  \/ \E t \in StartIds : starts[t].sid = s /\ starts'[t].pc # starts[t].pc
  \/ Len(stops') > Len(stops) /\ stops'[Len(stops')].sid = s
  \/ \E k \in StopIds : stops[k].sid = s /\ stops'[k].pc # stops[k].pc

\* What the stores hold under session id s, and the socket, timer and
\* subprocess of every ActiveSession object built for s.
SessionOf(s) ==
  <<pendingSessions[s], ongoingSessions[s],
    [t \in {u \in StartIds : starts[u].sid = s} |-> Resources(starts[t])]>>

\* C26: a step of a prepare, START or STOP of one session leaves what the
\* stores hold under every other session id, and the socket, timer and
\* subprocess of every other session, unchanged.
C26_OtherSessionsUntouched ==
  [][\A a \in Ids, b \in Ids : (a # b /\ Acts(a)) => SessionOf(b)' = SessionOf(b)]_vars

\* C26 witness: a STOP of session A has released A's ActiveSession while B
\* still streams with its socket bound and its timer armed.
C26_Witness ==
  /\ \E k \in StopIds : stops[k].sid = "A" /\ stops[k].pc = "done" /\ stops[k].found
  /\ ongoingSessions["A"] = 0
  /\ ongoingSessions["B"] # 0
  /\ starts[ongoingSessions["B"]].socket = "bound"
  /\ starts[ongoingSessions["B"]].timeout = "armed"

\* C27: what a launch hands to the subprocess is what the PendingSession of
\* the session holds at that moment: its ssrc, its address, its port (also
\* as the rtcp port), and, once the base64 text is decoded, its key and salt
\* bytes as prepare recorded them.
C27_LaunchUsesPendingSession ==
  [][\A t \in StartIds :
       Launches(t) =>
         LET sessionInfo == pendingSessions[starts[t].sid]
             args == starts'[t].args
         IN /\ args.ssrc = sessionInfo.videoSSRC
            /\ args.address = sessionInfo.address
            /\ args.port = sessionInfo.videoPort
            /\ args.rtcpport = sessionInfo.videoPort
            /\ Base64Decode(args.srtp_out_params) = sessionInfo.videoSRTP
            /\ prepared # NoCall /\ prepared.sid = starts[t].sid
                 => /\ sessionInfo.videoSRTP = prepared.request.srtp_key \o prepared.request.srtp_salt
                    /\ args.address = prepared.request.targetAddress
                    /\ args.port = prepared.request.port
                    /\ args.ssrc = prepared.ssrc]_vars

\* C27 witness: a session prepared twice, last with the four bytes 0, 129,
\* 64, 3 as key and salt and the ssrc 12, was launched with the base64 text
\* of these bytes (AIFAAw==), the ssrc 12 and the address and port of the
\* request.
C27_Witness ==
  /\ prepared # NoCall /\ prepared.replaced /\ prepared.ssrc = 12
  /\ \E t \in Launched :
       /\ starts[t].args.srtp_out_params = <<0, 8, 5, 0, 0, 48, Pad, Pad>>
       /\ starts[t].args.ssrc = 12
       /\ starts[t].args.address = "10.0.0.6"
       /\ starts[t].args.port = 52002
       /\ lastStoreOp[starts[t].sid] = "launch"

\* The START has created nothing: no socket, no timer, no subprocess and no
\* arguments for one.
Bare(a) ==
  /\ a.socket = "none" /\ a.timeout = "none" /\ a.mainProcess = "none"
  /\ a.args = NoArgs

\* C28: a START creates its socket and its subprocess in one step, the
\* continuation that runs after the settle delay, and the settle delay starts
\* only when the upstream start-feed call has returned a URL; until that
\* continuation the START has created nothing and the store holds no
\* ActiveSession of it.
C28_NothingBeforeSettle ==
  [][/\ \A t \in StartIds :
          /\ (Bare(starts[t]) /\ ~Bare(starts'[t]))
               => /\ starts[t].pc = "settle" /\ starts'[t].pc = "done"
                  /\ starts'[t].socket = "bound" /\ starts'[t].mainProcess = "Starting"
          /\ (starts[t].pc # "settle" /\ starts'[t].pc = "settle") => starts[t].pc = "http"
          /\ starts'[t].pc \in {"http", "settle", "rejected", "threw"}
               => Bare(starts'[t]) /\ ongoingSessions'[starts'[t].sid] # t
     /\ Len(starts') > Len(starts) =>
          /\ Bare(starts'[Len(starts')])
          /\ starts'[Len(starts')].pc = "http"]_vars

\* C28 witness: a START whose upstream call returned a URL and whose settle
\* delay has elapsed has its socket bound and its subprocess spawned.
C28_Witness ==
  \E t \in StartIds :
    /\ starts[t].pc = "done"
    /\ starts[t].socket = "bound"
    /\ starts[t].mainProcess = "Starting"
    /\ ongoingSessions[starts[t].sid] = t

\* C29: every UUID registered with the host is that of a doorbell of a
\* device listing, of a hub and a device not on the ignore lists, and of no
\* cached accessory; and no UUID is registered twice, also when a device is
\* in more than one listing.
C29_RegistersEachOnce ==
  /\ \A i \in 1..Len(discovery.registered) :
       /\ discovery.registered[i] \notin discovery.accessories
       /\ \E j \in 1..Len(discovery.listed) :
            /\ discovery.listed[j].station_sn \notin discovery.ignoreHubSns
            /\ \E n \in 1..Len(discovery.listed[j].devices) :
                 LET device == discovery.listed[j].devices[n]
                 IN /\ UuidOf(device.device_sn) = discovery.registered[i]
                    /\ device.device_type \in DoorbellTypes
                    /\ device.device_sn \notin discovery.ignoreDeviceSns
  /\ \A i \in 1..Len(discovery.registered), j \in 1..Len(discovery.registered) :
       discovery.registered[i] = discovery.registered[j] => i = j

\* C30: every STOP request is eventually answered through its callback, at
\* a moment the store holds no ActiveSession for its session, whether the
\* upstream stop-feed call succeeds or fails.
C30_EveryStopCallsBack ==
  \A k \in 1..MaxRequests :
    (k \in StopIds) ~> (/\ k \in StopIds
                        /\ stops[k].pc = "done"
                        /\ ongoingSessions[stops[k].sid] = 0)

\* C31: the inactivity timer of a launch of a session does not fire once a
\* STOP of the session has run its teardown to the end after that launch,
\* whether the store still held the launch's ActiveSession or a later launch
\* had overwritten it.
C31_NoTimerFiresAfterStop ==
  [][\A t \in StartIds :
       (starts[t].timeout = "armed" /\ starts'[t].timeout = "fired")
         => ~starts[t].stopped]_vars

====
